---- MODULE Spec2Model ----
(***************************************************************************)
(* Model of the message ingestion pipeline of inbox/models/message.py:     *)
(* Message.create_from_synced and the helpers it calls (_parse_mimepart,   *)
(* _mark_error, calculate_sanitized_body, the snippet functions,           *)
(* _trim_filename, _log_decode_error) and the Message.participants         *)
(* property.                                                               *)
(*                                                                         *)
(* Python values that may be None are modelled as sequences of length 0    *)
(* (None) or 1 (the value).  Python strings are sequences of one-character *)
(* strings; Python lists are sequences.                                    *)
(***************************************************************************)
EXTENDS Integers, Sequences, FiniteSets, TLC

VARIABLES
    pc,         \* position inside create_from_synced
    args,       \* the arguments of the call and the process configuration
    msg,        \* the Message under construction
    i,          \* the walk_index counter of create_from_synced
    walked,     \* history: the kinds of the parts the walk yielded, in order
    rejected,   \* history: walk positions _parse_mimepart rejected
    parsed,     \* what the tokenizer returned (None before and on failure)
    exc,        \* the exception in flight (None when there is none)
    errfiles,   \* the diagnostics sink: the writes done, in order
    raisedIn,   \* history: the step whose failure ended the try block
    fname,      \* input of _trim_filename (function specification)
    trimmed,    \* result of _trim_filename
    pmsg,       \* input of Message.participants (function specification)
    presult     \* result of Message.participants

vars == <<pc, args, msg, i, walked, rejected, parsed, exc, errfiles, raisedIn,
          fname, trimmed, pmsg, presult>>

pipelineVars == <<pc, args, msg, i, walked, rejected, parsed, exc, errfiles,
                  raisedIn>>
trimVars == <<fname, trimmed>>
partVars == <<pmsg, presult>>

---------------------------------------------------------------------------
\* Optional values

None == <<>>
Some(v) == <<v>>
IsNone(x) == x = <<>>
Val(x) == x[1]

---------------------------------------------------------------------------
\* Bounds of the model

\* longest walk the tokenizer yields for one message
MaxWalk == 2
\* how far the longest filename exceeds the truncation limit
NamePad == 6
\* how far the longest body text exceeds the snippet length
BodyPad == 4
\* the configured maximum serialized length of a recipient/reference field
MaxTextLength == 30
\* longest address list handed to Message.participants
MaxAddrs == 2

\* Program constants
SNIPPET_LENGTH == 191
TrimMaxLen == 64

---------------------------------------------------------------------------
\* Strings

Whitespace == {" ", "\n", "\r", "\t"}

Min(a, b) == IF a < b THEN a ELSE b

\* s[:n] of Python, n >= 0
Take(s, n) == SubSeq(s, 1, Min(n, Len(s)))

\* s[-n:] of Python, n > 0
LastN(s, n) == IF Len(s) <= n THEN s ELSE SubSeq(s, Len(s) - n + 1, Len(s))

RECURSIVE FlatMap(_, _, _)
\* piece(lo) \o ... \o piece(hi), by halving
FlatMap(piece(_), lo, hi) ==
    IF lo > hi THEN <<>>
    ELSE IF lo = hi THEN piece(lo)
    ELSE LET mid == (lo + hi) \div 2
         IN  FlatMap(piece, lo, mid) \o FlatMap(piece, mid + 1, hi)

\* str.split() without arguments: the maximal runs of characters that are
\* not whitespace, in order
Split(text) ==
    LET n == Len(text)
        starts(k) == text[k] \notin Whitespace
                     /\ (k = 1 \/ text[k - 1] \in Whitespace)
        last(k) == CHOOSE e \in k..n :
                      /\ e = n \/ text[e + 1] \in Whitespace
                      /\ \A j \in k..e : text[j] \notin Whitespace
        word(k) == IF starts(k) THEN << SubSeq(text, k, last(k)) >> ELSE <<>>
    IN  FlatMap(word, 1, n)

\* sep.join(words)
Join(sep, words) ==
    LET item(k) == IF k = 1 THEN words[k] ELSE sep \o words[k]
    IN  FlatMap(item, 1, Len(words))

\* str.strip() without arguments
Strip(s) ==
    LET n == Len(s)
    IN  IF \A k \in 1..n : s[k] \in Whitespace THEN <<>>
        ELSE SubSeq(s,
               CHOOSE k \in 1..n : s[k] \notin Whitespace
                                   /\ \A j \in 1..(k - 1) : s[j] \in Whitespace,
               CHOOSE k \in 1..n : s[k] \notin Whitespace
                                   /\ \A j \in (k + 1)..n : s[j] \in Whitespace)

\* data.replace('\r\n', '\n').replace('\r', '\n')
NormalizeNewlines(data) ==
    LET piece(k) ==
            IF data[k] = "\r" /\ k < Len(data) /\ data[k + 1] = "\n" THEN <<>>
            ELSE IF data[k] = "\r" THEN <<"\n">>
            ELSE <<data[k]>>
    IN  FlatMap(piece, 1, Len(data))

\* inbox.util.html.strip_tags: the text outside the <...> tags
StripTags(text) ==
    LET inTag(k) == \E a \in 1..k :
                       text[a] = "<" /\ \A b \in a..(k - 1) : text[b] # ">"
        piece(k) == IF inTag(k) THEN <<>> ELSE <<text[k]>>
    IN  FlatMap(piece, 1, Len(text))

\* inbox.util.html.plaintext2html: the text as a minimal HTML paragraph,
\* every newline a <br> tag
Plaintext2Html(text) ==
    LET piece(k) == IF text[k] = "\n" THEN <<"<", "b", "r", ">">> ELSE <<text[k]>>
    IN  <<"<", "p", ">">> \o FlatMap(piece, 1, Len(text)) \o <<"<", "/", "p", ">">>

---------------------------------------------------------------------------
\* _trim_filename

TrimFilename_keepHead(s, max_len) ==
    IF ~IsNone(s) /\ Val(s) # <<>> /\ Len(Val(s)) > max_len
    THEN Some(Take(Val(s), max_len))
    ELSE s

TrimFilename(s, max_len) ==
    IF ~IsNone(s) /\ Val(s) # <<>> /\ Len(Val(s)) > max_len
    THEN Some(Take(Val(s), max_len - 8) \o LastN(Val(s), 8))
    ELSE s

---------------------------------------------------------------------------
\* The Message aggregate

\* Message(): every attribute reads None until assigned.  decode_error is a
\* Boolean column with server default false; FALSE stands for "never set".
NewMessage ==
    [ full_body |-> None, namespace_id |-> None, data_sha256 |-> None,
      subject |-> None, from_addr |-> None, sender_addr |-> None,
      reply_to |-> None, to_addr |-> None, cc_addr |-> None,
      bcc_addr |-> None, in_reply_to |-> None, message_id_header |-> None,
      received_date |-> None, inbox_uid |-> None, references |-> None,
      size |-> None, sanitized_body |-> None, snippet |-> None,
      decode_error |-> FALSE, parts |-> <<>> ]

\* datetime.datetime.utcnow() at ingestion
UtcNow == "utcnow"

MarkError_noFill(m) ==
    [m EXCEPT !.decode_error = TRUE,
              !.size = Some(0),
              !.received_date = IF IsNone(@) THEN Some(UtcNow) ELSE @]

\* size is a filler too, written only when still unset
MarkError_keepSize(m) ==
    [m EXCEPT !.decode_error = TRUE,
              !.size = IF IsNone(@) THEN Some(0) ELSE @,
              !.received_date = IF IsNone(@) THEN Some(UtcNow) ELSE @,
              !.sanitized_body = IF IsNone(@) THEN Some(<<>>) ELSE @,
              !.snippet = IF IsNone(@) THEN Some(<<>>) ELSE @]

\* Message._mark_error
MarkError(m) ==
    [m EXCEPT !.decode_error = TRUE,
              !.size = Some(0),
              !.received_date = IF IsNone(@) THEN Some(UtcNow) ELSE @,
              !.sanitized_body = IF IsNone(@) THEN Some(<<>>) ELSE @,
              !.snippet = IF IsNone(@) THEN Some(<<>>) ELSE @]

CalculatePlaintextSnippet_truncFirst(text) ==
    Join(<<" ">>, Split(Take(text, SNIPPET_LENGTH)))

\* Message.calculate_plaintext_snippet
CalculatePlaintextSnippet(text) ==
    Take(Join(<<" ">>, Split(text)), SNIPPET_LENGTH)

\* Message.calculate_html_snippet
CalculateHtmlSnippet(text) == CalculatePlaintextSnippet(StripTags(text))

\* the last part of that content type instead of the first
FirstOfType_last(parts, ct) ==
    LET idx == {k \in 1..Len(parts) : parts[k].content_type = Some(ct)}
    IN  IF idx = {} THEN None
        ELSE Some(Strip(Val(parts[CHOOSE k \in idx : \A j \in idx : k >= j].data)))

\* the data of the first part of parts whose block has content type ct,
\* decoded and stripped; None when there is no such part
FirstOfType(parts, ct) ==
    LET idx == {k \in 1..Len(parts) : parts[k].content_type = Some(ct)}
    IN  IF idx = {} THEN None
        ELSE Some(Strip(Val(parts[CHOOSE k \in idx : \A j \in idx : k <= j].data)))

\* Message.body: (plaintext, html)
Body(m) ==
    [plain |-> FirstOfType(m.parts, "text/plain"),
     html |-> FirstOfType(m.parts, "text/html")]

\* Python truthiness of an optional string
Truthy(x) == ~IsNone(x) /\ Val(x) # <<>>

---------------------------------------------------------------------------
\* Serialized size of the JSON columns

\* len(json.dumps(s)) of a string without characters to escape
JsonStrLen(s) == Len(s) + 2

\* len(json.dumps(l)) of a list whose items serialize to the lengths lens
JsonListLen(lens) ==
    LET RECURSIVE Sum(_)
        Sum(k) == IF k = 0 THEN 0 ELSE lens[k] + Sum(k - 1)
    IN  2 + Sum(Len(lens)) + (IF Len(lens) > 1 THEN 2 * (Len(lens) - 1) ELSE 0)

\* len(json.dumps(value)) of an address list ([phrase, address] pairs) or of
\* a references list (strings); json.dumps(None) is 'null'
JsonLen(field, value) ==
    IF IsNone(value) THEN 4
    ELSE IF field = "references"
         THEN JsonListLen([k \in 1..Len(Val(value)) |-> JsonStrLen(Val(value)[k])])
         ELSE JsonListLen([k \in 1..Len(Val(value)) |->
                  JsonListLen(<<JsonStrLen(Val(value)[k][1]),
                                JsonStrLen(Val(value)[k][2])>>)])

\* inbox.sqlalchemy_ext.util.json_field_too_long
JsonFieldTooLong(field, value) == JsonLen(field, value) > MaxTextLength

---------------------------------------------------------------------------
\* The inputs: arguments, configuration, tokenizer results

Addr(c) == <<c, "@", "x">>
MsgId(c) == <<"<", c, ">">>

\* the messages of the mail store: folder, message identifier, raw bytes.
\* The second folder name holds a character (written by its code point) that
\* the file system encoding cannot encode; the third message has no bytes.
Sources ==
    { [folder_name |-> <<"I", "N", "B", "O", "X">>, mid |-> 7,
       body_string |-> Some(<<77, 73, 77, 69>>)],
      [folder_name |-> <<"E", "n", "t", "w", "U+00FC", "r", "f", "e">>, mid |-> 8,
       body_string |-> Some(<<70, 114, 111, 109, 58>>)],
      [folder_name |-> <<"I", "N", "B", "O", "X">>, mid |-> 9,
       body_string |-> None] }

FeatureFlags == { None, Some({}), Some({"ical_autoimport"}) }

\* the arguments of create_from_synced and the configuration it reads;
\* a body_string of None stands for a missing required argument
ArgSets ==
    { [ account_id |-> 1, namespace_id |-> 10, mid |-> src.mid,
        folder_name |-> src.folder_name, received_date |-> rd,
        body_string |-> src.body_string, feature_flags |-> ff ]
      : src \in Sources, rd \in {None, Some("caller")}, ff \in FeatureFlags }

\* which of the four guarded fields of a message serialize above the maximum
OversizeSets ==
    { {}, {"to_addr"}, {"references"}, {"cc_addr", "bcc_addr"} }

\* an address list parse_mimepart_address_header returns: one pair, or
\* enough pairs to serialize above the maximum
AddrList(c, big) ==
    IF big THEN [k \in 1..((MaxTextLength \div 11) + 1) |-> <<<<>>, Addr(c)>>]
    ELSE << <<<<"A", "l">>, Addr(c)>> >>

\* a list parse_references returns
RefList(big) ==
    IF big THEN [k \in 1..((MaxTextLength \div 5) + 1) |-> MsgId("r")]
    ELSE << MsgId("r") >>

\* what the tokenizer hands back for a message: whether the root is a single
\* part, and the header values the header helpers derive from it
ParsedOf(single, over) ==
    [ is_singlepart |-> single,
      clean_subject |-> Some(<<"H", "i">>),
      From |-> AddrList("f", FALSE),
      Sender |-> <<>>,
      ReplyTo |-> <<>>,
      To |-> AddrList("t", "to_addr" \in over),
      Cc |-> AddrList("c", "cc_addr" \in over),
      Bcc |-> AddrList("b", "bcc_addr" \in over),
      InReplyTo |-> None,
      MessageId |-> Some(MsgId("m")),
      internaldate |-> "internaldate",
      XInboxId |-> None,
      references |-> RefList("references" \in over) ]

ParsedSets == { ParsedOf(single, over) : single \in BOOLEAN, over \in OversizeSets }

\* body texts of the leaves
HelloBody == <<"H", "e", "l", "l", "o", "\r", "\n", "W", "o", "r", "l", "d">>
HtmlBody == <<"<", "p", ">", "H", "i", " ", "\r", " ", "y", "o", "u", "<", "/", "p", ">", "\n">>
\* an HTML alternative without content
BlankBody == <<" ", "\r", "\n">>
\* SNIPPET_LENGTH - 1 letters, two blanks, then letters: the collapsed text
\* has its blank at position SNIPPET_LENGTH
LongBody ==
    [k \in 1..(SNIPPET_LENGTH + BodyPad) |->
        IF k \in {SNIPPET_LENGTH, SNIPPET_LENGTH + 1} THEN " " ELSE "a"]

ShortName == <<"a", ".", "p", "d", "f">>
\* a filename of TrimMaxLen + NamePad characters, all positions telling
LongName ==
    [k \in 1..(TrimMaxLen + NamePad) |->
        IF k > TrimMaxLen + NamePad - 4
        THEN <<".", "p", "d", "f">>[k - (TrimMaxLen + NamePad - 4)]
        ELSE <<"a", "b", "c", "d", "e", "f", "g">>[(k % 7) + 1]]

\* a leaf of the parse tree as _parse_mimepart reads it
Leaf(ct, name, disp, filename, body) ==
    [ content_type |-> ct, name |-> name, disposition |-> disp,
      filename |-> filename, body |-> body, content_id |-> None ]

Leaves ==
    { Leaf("text/plain", None, None, None, Some(HelloBody)),
      Leaf("text/plain", None, Some("inline"), None, Some(LongBody)),
      Leaf("text/html", None, None, None, Some(HtmlBody)),
      Leaf("text/html", None, None, None, Some(BlankBody)),
      Leaf("application/pdf", Some(ShortName), Some("attachment"),
           Some(LongName), None),
      Leaf("text/calendar", Some(LongName), None, None, Some(HelloBody)),
      Leaf("text/plain", None, Some("form-data"), None, Some(HelloBody)) }

---------------------------------------------------------------------------
\* The diagnostics sink

Ascii(c) == c # "U+00FC"

\* base64.b64encode(folder_name.encode('utf-8')), kept symbolic
B64(name) == <<"b64:">> \o name

\* _get_errfilename: LOGDIR/<account_id>/errors/<folder>/<uid>, the folder
\* name base64-encoded when it cannot be encoded as it is
GetErrFilename(account_id, folder_name, uid) ==
    LET folder == IF \A k \in 1..Len(folder_name) : Ascii(folder_name[k])
                  THEN folder_name ELSE B64(folder_name)
    IN  <<"LOGDIR", account_id, "errors", folder, uid>>

LogDecodeError_empty(account_id, folder_name, uid, msg_string) ==
    [ key |-> <<account_id, folder_name, uid>>,
      path |-> GetErrFilename(account_id, folder_name, uid),
      data |-> <<>> ]

\* _log_decode_error: the file written, with the arguments that address it
LogDecodeError(account_id, folder_name, uid, msg_string) ==
    [ key |-> <<account_id, folder_name, uid>>,
      path |-> GetErrFilename(account_id, folder_name, uid),
      data |-> msg_string ]

---------------------------------------------------------------------------
\* Exceptions

\* the classes the except clause of create_from_synced catches
ParseErrors ==
    {"DecodingError", "AttributeError", "RuntimeError", "TypeError", "ValueError"}

\* what a helper called in the try block may raise: a class the except
\* clause catches, and one it does not
Raisable == {"DecodingError", "KeyError"}

\* the classes the except clauses around import_attached_events catch
IcalCaught ==
    {"MalformedEventError", "AssertionError", "TypeError", "RuntimeError",
     "AttributeError", "ValueError"}

\* an exception e leaves the try block of create_from_synced at step
Raise(e, step) ==
    /\ exc' = Some(e)
    /\ raisedIn' = step
    /\ pc' = IF e \in ParseErrors THEN "except" ELSE "raised"

---------------------------------------------------------------------------
\* Header fields

\* the validator of subject: at most 255 characters
ValidateLength(value) ==
    IF IsNone(value) THEN None ELSE Some(Take(Val(value), 255))

\* the synthetic part holding all headers, walk index 0
HeadersPart ==
    [ walk_index |-> 0, content_type |-> None, filename |-> None,
      content_disposition |-> None, content_id |-> None,
      data |-> Some(<<"h", "e", "a", "d", "e", "r", "s">>) ]

\* the statements of lines 220-256 in order; the last is the headers part
HeaderSteps ==
    << "data_sha256", "subject", "from_addr", "sender_addr", "reply_to",
       "to_addr", "cc_addr", "bcc_addr", "in_reply_to", "message_id_header",
       "received_date", "inbox_uid", "references", "size", "headers_part" >>

\* sha256(body_string).hexdigest(), kept as a small polynomial digest
Sha256Hex(b) ==
    LET RECURSIVE H(_)
        H(k) == IF k = 0 THEN 7 ELSE (H(k - 1) * 31 + b[k]) % 65521
    IN  <<"sha256", H(Len(b))>>

\* the message after the first k statements of lines 220-256
PopulateHeaders(m, a, p, k) ==
    LET did(f) == \E j \in 1..k : HeaderSteps[j] = f
    IN  [m EXCEPT
          !.data_sha256 = IF did("data_sha256") THEN Some(Sha256Hex(Val(a.body_string))) ELSE @,
          !.subject = IF did("subject") THEN ValidateLength(p.clean_subject) ELSE @,
          !.from_addr = IF did("from_addr") THEN Some(p.From) ELSE @,
          !.sender_addr = IF did("sender_addr") THEN Some(p.Sender) ELSE @,
          !.reply_to = IF did("reply_to") THEN Some(p.ReplyTo) ELSE @,
          !.to_addr = IF did("to_addr") THEN Some(p.To) ELSE @,
          !.cc_addr = IF did("cc_addr") THEN Some(p.Cc) ELSE @,
          !.bcc_addr = IF did("bcc_addr") THEN Some(p.Bcc) ELSE @,
          !.in_reply_to = IF did("in_reply_to") THEN p.InReplyTo ELSE @,
          !.message_id_header = IF did("message_id_header") THEN p.MessageId ELSE @,
          !.received_date = IF did("received_date")
                            THEN (IF ~IsNone(a.received_date) THEN a.received_date
                                  ELSE Some(p.internaldate))
                            ELSE @,
          !.inbox_uid = IF did("inbox_uid") THEN p.XInboxId ELSE @,
          !.references = IF did("references") THEN Some(p.references) ELSE @,
          !.size = IF did("size") THEN Some(Len(Val(a.body_string))) ELSE @,
          !.parts = IF did("headers_part") THEN Append(@, HeadersPart) ELSE @ ]

---------------------------------------------------------------------------
\* _parse_mimepart

\* content_type.startswith('text'), over the content types of the model
IsText(ct) == ct \in {"text/plain", "text/html", "text/calendar"}

KnownDispositions == {"inline", "attachment"}

ParseMimepart_indexByCount(m, part, index, bodyExc) ==
    IF ~IsNone(part.disposition) /\ Val(part.disposition) \notin KnownDispositions
    THEN [ msg |-> MarkError(m), attached |-> FALSE, exc |-> None ]
    ELSE
      LET new_part ==
              [ walk_index |-> Len(m.parts),
                content_type |-> Some(part.content_type),
                filename |->
                    IF part.disposition = Some("attachment")
                    THEN TrimFilename(part.filename, TrimMaxLen)
                    ELSE TrimFilename(part.name, TrimMaxLen),
                content_disposition |-> part.disposition,
                content_id |-> None,
                data |-> None ]
          data_to_write ==
              IF IsNone(part.body) THEN <<>>
              ELSE IF IsText(part.content_type)
                   THEN NormalizeNewlines(Val(part.body))
                   ELSE Val(part.body)
      IN  IF ~IsNone(bodyExc)
          THEN [ msg |-> [m EXCEPT !.parts = Append(@, new_part)],
                 attached |-> TRUE, exc |-> bodyExc ]
          ELSE [ msg |-> [m EXCEPT !.parts = Append(@,
                             [new_part EXCEPT !.content_id = part.content_id,
                                              !.data = Some(data_to_write)])],
                 attached |-> TRUE, exc |-> None ]

ParseMimepart_dropParts(m, part, index, bodyExc) ==
    IF ~IsNone(part.disposition) /\ Val(part.disposition) \notin KnownDispositions
    THEN [ msg |-> [MarkError(m) EXCEPT !.parts = SubSeq(@, 1, 1)],
           attached |-> FALSE, exc |-> None ]
    ELSE
      LET new_part ==
              [ walk_index |-> index,
                content_type |-> Some(part.content_type),
                filename |->
                    IF part.disposition = Some("attachment")
                    THEN TrimFilename(part.filename, TrimMaxLen)
                    ELSE TrimFilename(part.name, TrimMaxLen),
                content_disposition |-> part.disposition,
                content_id |-> None,
                data |-> None ]
          data_to_write ==
              IF IsNone(part.body) THEN <<>>
              ELSE IF IsText(part.content_type)
                   THEN NormalizeNewlines(Val(part.body))
                   ELSE Val(part.body)
      IN  IF ~IsNone(bodyExc)
          THEN [ msg |-> [m EXCEPT !.parts = Append(@, new_part)],
                 attached |-> TRUE, exc |-> bodyExc ]
          ELSE [ msg |-> [m EXCEPT !.parts = Append(@,
                             [new_part EXCEPT !.content_id = part.content_id,
                                              !.data = Some(data_to_write)])],
                 attached |-> TRUE, exc |-> None ]

\* Message._parse_mimepart on the leaf part with walk index index; bodyExc
\* is what reading and encoding the body raises (None: nothing).  Gives the
\* message afterwards, whether a Part was attached, and the exception.
ParseMimepart(m, part, index, bodyExc) ==
    IF ~IsNone(part.disposition) /\ Val(part.disposition) \notin KnownDispositions
    THEN [ msg |-> MarkError(m), attached |-> FALSE, exc |-> None ]
    ELSE
      LET new_part ==
              [ walk_index |-> index,
                content_type |-> Some(part.content_type),
                filename |->
                    IF part.disposition = Some("attachment")
                    THEN TrimFilename(part.filename, TrimMaxLen)
                    ELSE TrimFilename(part.name, TrimMaxLen),
                content_disposition |-> part.disposition,
                content_id |-> None,
                data |-> None ]
          data_to_write ==
              IF IsNone(part.body) THEN <<>>
              ELSE IF IsText(part.content_type)
                   THEN NormalizeNewlines(Val(part.body))
                   ELSE Val(part.body)
      IN  IF ~IsNone(bodyExc)
          THEN [ msg |-> [m EXCEPT !.parts = Append(@, new_part)],
                 attached |-> TRUE, exc |-> bodyExc ]
          ELSE [ msg |-> [m EXCEPT !.parts = Append(@,
                             [new_part EXCEPT !.content_id = part.content_id,
                                              !.data = Some(data_to_write)])],
                 attached |-> TRUE, exc |-> None ]

---------------------------------------------------------------------------
\* calculate_sanitized_body

\* Message.calculate_sanitized_body; done is the number of assignments made
\* before a helper raises (2: none raises)
CalculateSanitizedBody(m, done) ==
    LET b == Body(m)
    IN  IF Truthy(b.html)
        THEN [m EXCEPT
                !.snippet = IF done >= 1 THEN Some(CalculateHtmlSnippet(Val(b.html))) ELSE @,
                !.sanitized_body = IF done >= 2 THEN b.html ELSE @]
        ELSE IF Truthy(b.plain)
        THEN [m EXCEPT
                !.snippet = IF done >= 1 THEN Some(CalculatePlaintextSnippet(Val(b.plain))) ELSE @,
                !.sanitized_body = IF done >= 2 THEN Some(Plaintext2Html(Val(b.plain))) ELSE @]
        ELSE [m EXCEPT !.sanitized_body = Some(<<>>), !.snippet = Some(<<>>)]

\* the assertions of calculate_sanitized_body and of Message.body hold
SanitizeAsserts(m) ==
    /\ m.parts # <<>>
    /\ LET b == Body(m)
       IN  Truthy(b.html) => \A k \in 1..Len(Val(b.html)) : Val(b.html)[k] # "\r"

---------------------------------------------------------------------------
\* The post-pass of create_from_synced

PostFields == <<"to_addr", "cc_addr", "bcc_addr", "references">>

\* getattr(msg, field)
FieldOf(m, field) ==
    CASE field = "to_addr" -> m.to_addr
      [] field = "cc_addr" -> m.cc_addr
      [] field = "bcc_addr" -> m.bcc_addr
      [] field = "references" -> m.references

ClearField_recipients(m, field) ==
    IF field = "references" THEN [m EXCEPT !.references = Some(<<>>)]
    ELSE [m EXCEPT !.to_addr = Some(<<>>), !.cc_addr = Some(<<>>),
                   !.bcc_addr = Some(<<>>)]

\* setattr(msg, field, [])
ClearField(m, field) ==
    CASE field = "to_addr" -> [m EXCEPT !.to_addr = Some(<<>>)]
      [] field = "cc_addr" -> [m EXCEPT !.cc_addr = Some(<<>>)]
      [] field = "bcc_addr" -> [m EXCEPT !.bcc_addr = Some(<<>>)]
      [] field = "references" -> [m EXCEPT !.references = Some(<<>>)]

RECURSIVE PostPassFrom(_, _, _, _, _)
\* lines 305-314 from field k on: writes is how many diagnostics writes still
\* succeed before one raises
PostPassFrom(m, files, a, k, writes) ==
    IF k > Len(PostFields) THEN [msg |-> m, files |-> files, raised |-> FALSE]
    ELSE IF JsonFieldTooLong(PostFields[k], FieldOf(m, PostFields[k]))
         THEN IF writes = 0
              THEN [msg |-> m, files |-> files, raised |-> TRUE]
              ELSE PostPassFrom(
                     MarkError(ClearField(m, PostFields[k])),
                     Append(files, LogDecodeError(a.account_id, a.folder_name,
                                                  a.mid, Val(a.body_string))),
                     a, k + 1, writes - 1)
         ELSE PostPassFrom(m, files, a, k + 1, writes)

---------------------------------------------------------------------------
\* Message.participants

\* the pairs of the address fields that are not None and not empty, chained
Chain(m) ==
    LET part(f) == IF IsNone(f) THEN <<>> ELSE Val(f)
    IN  part(m.from_addr) \o part(m.to_addr) \o part(m.cc_addr) \o part(m.bcc_addr)

\* deduped_participants: the stripped phrases seen for an address
PhrasesOf(m, address) ==
    {Strip(Chain(m)[k][1]) : k \in {j \in 1..Len(Chain(m)) : Chain(m)[j][2] = address}}

Participants_keepEmpty(m) ==
    LET addresses == {Chain(m)[k][2] : k \in 1..Len(Chain(m))}
    IN  UNION {{<<phrase, address>> : phrase \in PhrasesOf(m, address)}
               : address \in addresses}

\* the (phrase, address) pairs Message.participants appends to its result
Participants(m) ==
    LET addresses == {Chain(m)[k][2] : k \in 1..Len(Chain(m))}
    IN  UNION {{<<phrase, address>> :
                  phrase \in {ph \in PhrasesOf(m, address) :
                                 ph # <<>> \/ Cardinality(PhrasesOf(m, address)) = 1}}
               : address \in addresses}

\* the orders in which a dictionary may hand out the pairs of S
Orderings(S) ==
    {q \in [1..Cardinality(S) -> S] : \A x \in S : \E k \in DOMAIN q : q[k] = x}

---------------------------------------------------------------------------
\* create_from_synced, step by step

Idle ==
    /\ pc = "idle" /\ args = None /\ msg = NewMessage /\ i = 0
    /\ walked = <<>> /\ rejected = {} /\ parsed = None /\ exc = None
    /\ errfiles = <<>> /\ raisedIn = "none"

Init ==
    /\ pc = "call"
    /\ args \in {Some(a) : a \in ArgSets}
    /\ msg = NewMessage
    /\ i = 0
    /\ walked = <<>>
    /\ rejected = {}
    /\ parsed = None
    /\ exc = None
    /\ errfiles = <<>>
    /\ raisedIn = "none"
    /\ fname = None /\ trimmed = None
    /\ pmsg = None /\ presult = None

\* lines 191-200: the required arguments, then msg = Message()
Enter ==
    /\ pc = "call"
    /\ IF IsNone(Val(args).body_string)
       THEN /\ pc' = "raised"
            /\ exc' = Some("ValueError")
            /\ raisedIn' = "arguments"
       ELSE /\ pc' = "tokenize"
            /\ UNCHANGED <<exc, raisedIn>>
    /\ UNCHANGED <<args, msg, i, walked, rejected, parsed, errfiles>>
    /\ UNCHANGED <<trimVars, partVars>>

\* the full-body Block is not stored ahead of the tokenizer
StoreFullBody_skip(m, a) ==
    [m EXCEPT !.namespace_id = Some(a.namespace_id)]

\* lines 203-210: the raw bytes become the full-body Block
StoreFullBody(m, a) ==
    [m EXCEPT !.full_body = Some([ data |-> Val(a.body_string),
                                   content_type |-> "text/plain",
                                   namespace_id |-> a.namespace_id ]),
              !.namespace_id = Some(a.namespace_id)]

\* lines 202-211: the full-body Block, then mime.from_string
Tokenize ==
    /\ pc = "tokenize"
    /\ msg' = StoreFullBody(msg, Val(args))
    /\ \/ \E p \in ParsedSets :
            /\ parsed' = Some(p)
            /\ pc' = "headers"
            /\ UNCHANGED <<exc, raisedIn>>
       \/ \E e \in Raisable :
            /\ Raise(e, "from_string")
            /\ UNCHANGED parsed
    /\ UNCHANGED <<args, i, walked, rejected, errfiles>>
    /\ UNCHANGED <<trimVars, partVars>>

\* lines 213-256: the header fields and the headers part; a helper may raise
\* after any number of the assignments
Headers ==
    /\ pc = "headers"
    /\ \/ /\ msg' = PopulateHeaders(msg, Val(args), Val(parsed), Len(HeaderSteps))
          /\ pc' = "walk"
          /\ UNCHANGED <<exc, raisedIn>>
       \/ \E k \in 0..(Len(HeaderSteps) - 1), e \in Raisable :
            /\ msg' = PopulateHeaders(msg, Val(args), Val(parsed), k)
            /\ Raise(e, "headers")
    /\ i' = 0
    /\ UNCHANGED <<args, walked, rejected, parsed, errfiles>>
    /\ UNCHANGED <<trimVars, partVars>>

\* whether parsed.walk() has another part to yield: a single part message
\* yields itself and nothing else
MayYield ==
    IF Val(parsed).is_singlepart THEN walked = <<>> ELSE Len(walked) < MaxWalk
MayStop == IF Val(parsed).is_singlepart THEN walked # <<>> ELSE TRUE

\* lines 258-265: the walk yields a nested multipart part, which is skipped
WalkMultipart ==
    /\ pc = "walk"
    /\ MayYield
    /\ ~Val(parsed).is_singlepart
    /\ i' = i + 1
    /\ walked' = Append(walked, "multipart")
    /\ UNCHANGED <<pc, args, msg, rejected, parsed, exc, errfiles, raisedIn>>
    /\ UNCHANGED <<trimVars, partVars>>

\* lines 258-286: the walk yields a leaf: _parse_mimepart, then the calendar
\* import when the feature flag asks for it
WalkLeaf ==
    /\ pc = "walk"
    /\ MayYield
    /\ i' = i + 1
    /\ walked' = Append(walked, "leaf")
    /\ \E part \in Leaves, bodyExc \in {None} \cup {Some(e) : e \in Raisable} :
         LET r == ParseMimepart(msg, part, i + 1, bodyExc)
             flags == Val(args).feature_flags
         IN  /\ msg' = r.msg
             /\ rejected' = IF r.attached THEN rejected
                           ELSE rejected \cup {Len(walked) + 1}
             /\ IF ~IsNone(r.exc)
                THEN Raise(Val(r.exc), "parse_mimepart")
                ELSE IF IsNone(flags)
                THEN Raise("TypeError", "feature_flags")
                ELSE IF "ical_autoimport" \in Val(flags)
                        /\ part.content_type = "text/calendar"
                THEN \E out \in {"ok", "DecodingError", "KeyError"} \cup IcalCaught :
                        IF out \in {"ok"} \cup IcalCaught
                        THEN UNCHANGED <<pc, exc, raisedIn>>
                        ELSE Raise(out, "import_attached_events")
                ELSE UNCHANGED <<pc, exc, raisedIn>>
    /\ UNCHANGED <<args, parsed, errfiles>>
    /\ UNCHANGED <<trimVars, partVars>>

\* line 288: the walk is over, calculate_sanitized_body; strip_tags may raise
\* before the snippet is assigned, plaintext2html after it
Sanitize ==
    /\ pc = "walk"
    /\ MayStop
    /\ IF ~SanitizeAsserts(msg)
       THEN /\ Raise("AssertionError", "calculate_sanitized_body")
            /\ UNCHANGED msg
       ELSE \/ /\ msg' = CalculateSanitizedBody(msg, 2)
               /\ pc' = "post"
               /\ UNCHANGED <<exc, raisedIn>>
            \/ /\ Truthy(Body(msg).html) \/ Truthy(Body(msg).plain)
               /\ \E done \in 0..1, e \in Raisable :
                    /\ Truthy(Body(msg).html) => done = 0
                    /\ msg' = CalculateSanitizedBody(msg, done)
                    /\ Raise(e, "calculate_sanitized_body")
    /\ UNCHANGED <<args, i, walked, rejected, parsed, errfiles>>
    /\ UNCHANGED <<trimVars, partVars>>

\* lines 289-300: the except clause: the diagnostics write (which may itself
\* raise), then _mark_error
HandleParseError ==
    /\ pc = "except"
    /\ \/ /\ errfiles' = Append(errfiles,
                 LogDecodeError(Val(args).account_id, Val(args).folder_name,
                                Val(args).mid, Val(Val(args).body_string)))
          /\ msg' = MarkError(msg)
          /\ exc' = None
          /\ pc' = "post"
       \/ /\ exc' = Some("IOError")
          /\ pc' = "raised"
          /\ UNCHANGED <<msg, errfiles>>
    /\ UNCHANGED <<args, i, walked, rejected, parsed, raisedIn>>
    /\ UNCHANGED <<trimVars, partVars>>

\* lines 302-316: the oversize post-pass, then return msg
PostPass ==
    /\ pc = "post"
    /\ \E writes \in 0..Len(PostFields) :
         LET r == PostPassFrom(msg, errfiles, Val(args), 1, writes)
         IN  /\ msg' = r.msg
             /\ errfiles' = r.files
             /\ IF r.raised
                THEN pc' = "raised" /\ exc' = Some("IOError")
                ELSE pc' = "done" /\ UNCHANGED exc
    /\ UNCHANGED <<args, i, walked, rejected, parsed, raisedIn>>
    /\ UNCHANGED <<trimVars, partVars>>

Next ==
    \/ Enter
    \/ Tokenize
    \/ Headers
    \/ WalkMultipart
    \/ WalkLeaf
    \/ Sanitize
    \/ HandleParseError
    \/ PostPass

Spec == Init /\ [][Next]_vars

---------------------------------------------------------------------------
\* _trim_filename as a function of its argument

\* a filename of n characters, the v-th of the families
NameOf(n, v) ==
    [k \in 1..n |-> <<"a", "b", "c", "d", "e", "f", "g">>[((k * v) % 7) + 1]]

Filenames ==
    {None} \cup {Some(NameOf(n, v)) : n \in 0..(TrimMaxLen + NamePad), v \in 1..3}

InitTrim ==
    /\ Idle
    /\ fname \in Filenames
    /\ trimmed = None
    /\ pmsg = None /\ presult = None

\* _trim_filename(s, mid) with the default max_len
CallTrim ==
    /\ IsNone(trimmed)
    /\ trimmed' = Some(TrimFilename(fname, TrimMaxLen))
    /\ UNCHANGED <<fname, partVars, pipelineVars>>

NextTrim == CallTrim

SpecTrim == InitTrim /\ [][NextTrim]_vars

---------------------------------------------------------------------------
\* Message.participants as a function of the address fields

Phrases == { <<>>, <<" ">>, <<"A">>, <<" ", "A", " ">>, <<"B">> }
Pairs == { <<ph, Addr(c)>> : ph \in Phrases, c \in {"x", "y"} }

\* the address lists of at most n pairs
AddrLists(n) == UNION { [1..k -> Pairs] : k \in 0..n }

InitParticipants ==
    /\ Idle
    /\ fname = None /\ trimmed = None
    /\ pmsg \in { Some([from_addr |-> f, to_addr |-> t, cc_addr |-> c, bcc_addr |-> b])
                  : f \in {None, Some(<<>>), Some(<< <<<<"A">>, Addr("x")>> >>)},
                    t \in {None} \cup {Some(l) : l \in AddrLists(MaxAddrs)},
                    c \in {None, Some(<< <<<<>>, Addr("x")>> >>)},
                    b \in {Some(<<>>), Some(<< <<<<"B">>, Addr("y")>> >>)} }
    /\ presult = None

\* reading msg.participants: the pairs, in the order the dictionary and the
\* sets hand them out
ReadParticipants ==
    /\ IsNone(presult)
    /\ \E q \in Orderings(Participants(Val(pmsg))) : presult' = Some(q)
    /\ UNCHANGED <<pmsg, trimVars, pipelineVars>>

NextParticipants == ReadParticipants

SpecParticipants == InitParticipants /\ [][NextParticipants]_vars

---------------------------------------------------------------------------
\* Properties

\* the call returned its Message
Returned == pc = "done"

\* the leaf positions of the walk so far
LeafPositions == {k \in 1..Len(walked) : walked[k] = "leaf"}

\* C1: create_from_synced never raises past its boundary: whatever the
\* tokenizer, the header and part steps, the calendar importer and the
\* diagnostics write do, a call given its required arguments ends by
\* returning a Message, not by propagating an exception.
C1_NeverRaises == pc = "raised" => raisedIn = "arguments"

\* C2: once create_from_synced returns, sanitized_body and snippet are both
\* set (strings, possibly empty), whatever happened on the way.
C2_BodyAndSnippetSet ==
    Returned => ~IsNone(msg.sanitized_body) /\ ~IsNone(msg.snippet)

\* C2 witness: a call returned after plaintext2html raised in
\* calculate_sanitized_body: the snippet was computed, the body is the filler
C2_Witness ==
    /\ Returned
    /\ raisedIn = "calculate_sanitized_body"
    /\ msg.sanitized_body = Some(<<>>)
    /\ msg.snippet # Some(<<>>)

\* C3: when mime.from_string fails with a decoding-class error, the returned
\* Message has decode_error set, size 0, received_date the ingestion time
\* (whatever the caller passed), empty sanitized_body and snippet, and the
\* diagnostics sink was written exactly once, with the raw bytes, under
\* (account id, folder name, message id).
C3_TokenizerFailure ==
    (Returned /\ raisedIn = "from_string") =>
        /\ msg.decode_error
        /\ msg.size = Some(0)
        /\ msg.received_date = Some(UtcNow)
        /\ msg.sanitized_body = Some(<<>>)
        /\ msg.snippet = Some(<<>>)
        /\ Len(errfiles) = 1
        /\ errfiles[1].key = <<Val(args).account_id, Val(args).folder_name,
                               Val(args).mid>>
        /\ errfiles[1].data = Val(Val(args).body_string)

\* C3 witness: the tokenizer failed on a call that supplied a received_date
C3_Witness ==
    /\ Returned
    /\ raisedIn = "from_string"
    /\ Val(args).received_date = Some("caller")
    /\ Len(errfiles) = 1

\* the walk indices of the Parts attached for leaves (every Part but the
\* first, which holds the headers)
LeafPartIndices == {msg.parts[k].walk_index : k \in 2..Len(msg.parts)}

\* the walk ended and calculate_sanitized_body ran, with no exception
WalkedCleanly == pc \in {"post", "done"} /\ raisedIn = "none"

\* C4 as stated: index 0 only for the headers Part, and the N leaves of a
\* message walked without error or rejection hold the indices 1..N, in order.
C4_Original ==
    (WalkedCleanly /\ rejected = {}) =>
        /\ \A k \in 1..Len(msg.parts) : (msg.parts[k].walk_index = 0) <=> (k = 1)
        /\ Len(msg.parts) = Cardinality(LeafPositions) + 1
        /\ \A k \in 1..Cardinality(LeafPositions) : msg.parts[k + 1].walk_index = k

\* C4 as amended: index 0 is held only by the headers Part; the indices of
\* the leaf Parts are strictly increasing in document order; after a walk
\* without exception they are exactly the positions of the accepted leaves
\* in the walk, where a nested multipart part takes a position too; a
\* single-part message has the one leaf at position 1; and they are 1..N
\* when the walk yielded no nested multipart part and no leaf was rejected.
C4_WalkIndices ==
    /\ \A k \in 1..Len(msg.parts) : (msg.parts[k].walk_index = 0) <=> (k = 1)
    /\ \A k \in 2..(Len(msg.parts) - 1) :
          msg.parts[k].walk_index < msg.parts[k + 1].walk_index
    /\ WalkedCleanly =>
          /\ LeafPartIndices = LeafPositions \ rejected
          /\ Len(msg.parts) = Cardinality(LeafPositions \ rejected) + 1
          /\ Val(parsed).is_singlepart => LeafPositions = {1}
          /\ (LeafPositions = 1..Len(walked) /\ rejected = {}) =>
                LeafPartIndices = 1..Cardinality(LeafPositions)

\* C4 witness: a nested multipart part came before the only leaf, which
\* holds walk index 2
C4_Witness ==
    /\ Returned
    /\ raisedIn = "none"
    /\ walked = <<"multipart", "leaf">>
    /\ rejected = {}
    /\ LeafPartIndices = {2}

\* the attributes the post-pass does not guard and _mark_error only fills
Untouched(m) ==
    <<m.subject, m.from_addr, m.sender_addr, m.reply_to, m.in_reply_to,
      m.message_id_header, m.inbox_uid, m.data_sha256, m.full_body, m.parts,
      m.received_date, m.sanitized_body, m.snippet>>

C6_MarkErrorKeepsSize ==
    [][ (msg'.decode_error /\ ~IsNone(msg.size) /\ Val(msg.size) > 0) =>
          msg'.size = msg.size ]_vars

\* C7: _trim_filename with max_len 64: a filename of more than 64
\* characters comes back with exactly 64, its first 56 and its last 8
\* characters those of the original; a filename of at most 64 characters,
\* the empty one and None come back unchanged.
C7_TrimFilename ==
    ~IsNone(trimmed) =>
        LET r == Val(trimmed)
        IN  IF ~IsNone(fname) /\ Len(Val(fname)) > TrimMaxLen
            THEN /\ ~IsNone(r)
                 /\ Len(Val(r)) = TrimMaxLen
                 /\ \A k \in 1..(TrimMaxLen - 8) : Val(r)[k] = Val(fname)[k]
                 /\ \A k \in 1..8 :
                       Val(r)[TrimMaxLen - 8 + k] = Val(fname)[Len(Val(fname)) - 8 + k]
            ELSE r = fname

\* C7 witness: a filename longer than the limit was trimmed
C7_Witness ==
    /\ ~IsNone(trimmed)
    /\ ~IsNone(fname)
    /\ Len(Val(fname)) = TrimMaxLen + 3
    /\ Val(trimmed) # fname

\* the whitespace-collapsed form of text, character by character: a
\* character that is not whitespace stays; a run of whitespace between two
\* such characters becomes one blank; leading and trailing runs vanish
Collapsed(text) ==
    LET n == Len(text)
        piece(k) ==
            IF text[k] \notin Whitespace THEN <<text[k]>>
            ELSE IF /\ k > 1
                    /\ text[k - 1] \notin Whitespace
                    /\ \E j \in (k + 1)..n : text[j] \notin Whitespace
                 THEN <<" ">>
                 ELSE <<>>
    IN  FlatMap(piece, 1, n)

\* the text calculate_sanitized_body derives the snippet from
SnippetSource ==
    LET b == Body(msg)
    IN  IF Truthy(b.html) THEN StripTags(Val(b.html))
        ELSE IF Truthy(b.plain) THEN Val(b.plain)
        ELSE <<>>

NoWhitespaceRun(s) ==
    \A k \in 1..(Len(s) - 1) : ~(s[k] \in Whitespace /\ s[k + 1] \in Whitespace)

\* C8 as stated: on return the snippet has at most 191 characters, no run
\* of whitespace, no leading and no trailing whitespace, and is the
\* whitespace-collapsed body text cut to 191 characters.
C8_Original ==
    Returned =>
        LET sn == Val(msg.snippet)
        IN  /\ Len(sn) <= SNIPPET_LENGTH
            /\ NoWhitespaceRun(sn)
            /\ sn # <<>> => sn[1] \notin Whitespace /\ sn[Len(sn)] \notin Whitespace
            /\ sn = <<>> \/ sn = Take(Collapsed(SnippetSource), SNIPPET_LENGTH)

\* C8 as amended: on return the snippet has at most 191 characters, no run
\* of whitespace and no leading whitespace, and is empty or the first 191
\* characters of the whitespace-collapsed body text; it may end in a single
\* blank, when character 191 of the collapsed text is the blank between two
\* words.
C8_Snippet ==
    Returned =>
        LET sn == Val(msg.snippet)
        IN  /\ Len(sn) <= SNIPPET_LENGTH
            /\ NoWhitespaceRun(sn)
            /\ sn # <<>> => sn[1] \notin Whitespace
            /\ sn = <<>> \/ sn = Take(Collapsed(SnippetSource), SNIPPET_LENGTH)
            /\ (sn # <<>> /\ sn[Len(sn)] \in Whitespace) =>
                  Len(sn) = SNIPPET_LENGTH /\ sn[Len(sn)] = " "

\* C8 witness: the snippet of a long body was cut at 191 characters, behind
\* the blank that collapsing left
C8_Witness ==
    /\ Returned
    /\ raisedIn = "none"
    /\ Len(Val(msg.snippet)) = SNIPPET_LENGTH
    /\ Val(msg.snippet)[SNIPPET_LENGTH] = " "
    /\ Len(Collapsed(SnippetSource)) > SNIPPET_LENGTH

\* the stripped phrases the four address fields of pmsg hold for address
SeenPhrases(address) ==
    LET m == Val(pmsg)
        fields == <<m.from_addr, m.to_addr, m.cc_addr, m.bcc_addr>>
    IN  UNION {{Strip(Val(fields[f])[k][1]) :
                   k \in {j \in 1..Len(Val(fields[f])) : Val(fields[f])[j][2] = address}}
               : f \in {g \in 1..4 : ~IsNone(fields[g])}}

\* how often the pair occurs in the list q
Occurrences(q, pair) == Cardinality({k \in 1..Len(q) : q[k] = pair})

\* C9: participants deduplicates phrases per address over from_addr,
\* to_addr, cc_addr and bcc_addr: ("", address) is returned if and only if
\* the empty phrase is the only stripped phrase seen for the address, every
\* non-empty phrase seen for an address is returned exactly once, and
\* nothing else is returned.
C9_Participants ==
    ~IsNone(presult) =>
        LET q == Val(presult)
        IN  /\ \A c \in {"x", "y"} :
                 /\ Occurrences(q, <<<<>>, Addr(c)>>) =
                       (IF SeenPhrases(Addr(c)) = {<<>>} THEN 1 ELSE 0)
                 /\ \A ph \in SeenPhrases(Addr(c)) \ {<<>>} :
                       Occurrences(q, <<ph, Addr(c)>>) = 1
            /\ \A k \in 1..Len(q) : q[k][1] \in SeenPhrases(q[k][2])

\* C9 witness: one address was seen with the empty phrase and with a
\* non-empty one, another with the empty phrase only
C9_Witness ==
    /\ ~IsNone(presult)
    /\ SeenPhrases(Addr("x")) = {<<>>, <<"A">>}
    /\ SeenPhrases(Addr("y")) = {<<>>}
    /\ Len(Val(presult)) = 2

\* the body calculate_sanitized_body selects from the Parts of msg
SelectedBody ==
    LET b == Body(msg)
    IN  IF Truthy(b.html) THEN b.html
        ELSE IF Truthy(b.plain) THEN Some(Plaintext2Html(Val(b.plain)))
        ELSE Some(<<>>)

\* C10: a leaf whose content-disposition is present and neither inline nor
\* attachment is skipped alone: the step that rejects it marks the message,
\* attaches nothing and leaves the Parts attached so far as they are, and the
\* walk goes on (unless the feature-flag lookup that follows _parse_mimepart
\* raises); after a walk without exception every accepted leaf has its Part
\* and sanitized_body is the body selected from those Parts.
C10_RejectedLeaf ==
    /\ [][ rejected' # rejected =>
              /\ msg'.decode_error
              /\ msg'.parts = msg.parts
              /\ pc' = "walk" \/ raisedIn' = "feature_flags" ]_vars
    /\ [](WalkedCleanly =>
              /\ LeafPartIndices = LeafPositions \ rejected
              /\ rejected # {} => msg.decode_error
              /\ msg.sanitized_body = SelectedBody)

\* C10 witness: the first of two leaves was rejected, the second is attached
\* with walk index 2 and gave the body
C10_Witness ==
    /\ Returned
    /\ raisedIn = "none"
    /\ walked = <<"leaf", "leaf">>
    /\ rejected = {1}
    /\ LeafPartIndices = {2}
    /\ msg.decode_error
    /\ msg.sanitized_body # Some(<<>>)

\* the positions in msg.parts of the Parts of content type ct, and the
\* stripped text of the first of them
PartsOfType(ct) == {k \in 1..Len(msg.parts) : msg.parts[k].content_type = Some(ct)}
FirstText(ct) ==
    LET first == CHOOSE k \in PartsOfType(ct) : \A j \in PartsOfType(ct) : k <= j
    IN  Strip(Val(msg.parts[first].data))

\* C11 as stated: whenever a text/html Part exists the body is its HTML
\* and the snippet its tag-stripped text, and no text/plain Part is used;
\* else whenever a text/plain Part exists the body is its HTML conversion;
\* else both are empty.
C11_Original ==
    WalkedCleanly =>
        IF PartsOfType("text/html") # {}
        THEN /\ msg.sanitized_body = Some(FirstText("text/html"))
             /\ msg.snippet =
                  Some(CalculatePlaintextSnippet(StripTags(FirstText("text/html"))))
        ELSE IF PartsOfType("text/plain") # {}
        THEN /\ msg.sanitized_body = Some(Plaintext2Html(FirstText("text/plain")))
             /\ msg.snippet = Some(CalculatePlaintextSnippet(FirstText("text/plain")))
        ELSE msg.sanitized_body = Some(<<>>) /\ msg.snippet = Some(<<>>)

\* C11: after a walk and calculate_sanitized_body without exception: if the
\* first text/html Part in walk order has text left after stripping, the
\* body is that stripped HTML and the snippet comes from its tag-stripped
\* text; else, if the first text/plain Part has text left after stripping,
\* the body is the HTML conversion of that text and the snippet comes from
\* the plaintext; else both are the empty string.  Only the first Part of a
\* content type is ever looked at, and a text/plain Part is used exactly
\* when no text/html Part exists or the first one is empty.
C11_BodySelection ==
    WalkedCleanly =>
        LET html == PartsOfType("text/html") # {} /\ FirstText("text/html") # <<>>
            plain == PartsOfType("text/plain") # {} /\ FirstText("text/plain") # <<>>
        IN  IF html
            THEN /\ msg.sanitized_body = Some(FirstText("text/html"))
                 /\ msg.snippet =
                      Some(CalculatePlaintextSnippet(StripTags(FirstText("text/html"))))
            ELSE IF plain
            THEN /\ msg.sanitized_body = Some(Plaintext2Html(FirstText("text/plain")))
                 /\ msg.snippet = Some(CalculatePlaintextSnippet(FirstText("text/plain")))
            ELSE msg.sanitized_body = Some(<<>>) /\ msg.snippet = Some(<<>>)

\* C11 witness: the call returned a message whose first Part after the
\* headers is an empty text/html Part and whose second is a text/plain
\* Part, and the body is the conversion of the plaintext
C11_Witness ==
    /\ Returned
    /\ raisedIn = "none"
    /\ Len(msg.parts) = 3
    /\ msg.parts[2].content_type = Some("text/html")
    /\ FirstText("text/html") = <<>>
    /\ msg.parts[3].content_type = Some("text/plain")
    /\ msg.sanitized_body = Some(Plaintext2Html(FirstText("text/plain")))
    /\ msg.snippet = Some(<<"H", "e", "l", "l", "o", " ", "W", "o", "r", "l", "d">>)

\* the full-body Block of msg holds the raw bytes of the call, as text/plain
FullBodyStored ==
    /\ ~IsNone(msg.full_body)
    /\ Val(msg.full_body).data = Val(Val(args).body_string)
    /\ Val(msg.full_body).content_type = "text/plain"

\* the content hash of msg is the digest of the raw bytes of the call
HashStored == msg.data_sha256 = Some(Sha256Hex(Val(Val(args).body_string)))

\* C12 as stated: on every return, also after a failed tokenization or
\* later step, full_body holds the raw bytes and data_sha256 is their digest.
C12_Original == Returned => FullBodyStored /\ HashStored

\* C12: the full-body Block (text/plain, the raw bytes) is stored before the
\* tokenizer is invoked, the content hash only after it: when the tokenizer
\* has returned the Block is there and the hash is not yet; on every return
\* full_body holds the raw bytes; data_sha256 is their digest when the
\* tokenizer and the header lookup that precedes the hash succeeded, so on
\* every return whose failure, if any, came after the header fields; it is
\* unset after a failed tokenization, and unset or the digest when a header
\* statement failed.
C12_HashAfterTokenizer ==
    /\ pc = "headers" => FullBodyStored /\ IsNone(msg.data_sha256)
    /\ Returned =>
          /\ FullBodyStored
          /\ raisedIn = "from_string" => IsNone(msg.data_sha256)
          /\ raisedIn = "headers" => IsNone(msg.data_sha256) \/ HashStored
          /\ raisedIn \notin {"from_string", "headers"} => HashStored

\* C12 witness: the call returned after a failed tokenization, with the
\* full body stored and no content hash
C12_Witness ==
    /\ Returned
    /\ raisedIn = "from_string"
    /\ FullBodyStored
    /\ IsNone(msg.data_sha256)
    /\ msg.decode_error

\* what marks a message during a run: a caught failure of a step or an
\* oversize field (each writes the diagnostics sink), or a rejected leaf
MarkedDuringRun == errfiles # <<>> \/ rejected # {}

====
